---- MODULE Spec2Model ----
(***************************************************************************)
(* StreamlitInterface.py: a Streamlit page that sends a tweet to a         *)
(* sentiment API and renders the answer.  The script is re-executed from   *)
(* top to bottom on every widget event; it blocks at three network calls   *)
(* (GET /health, POST /predict, POST /explain).  An action of this model   *)
(* is the stretch of script between two blocking points.                   *)
(*                                                                         *)
(* A Python str is a sequence of code points: it is modelled as a          *)
(* sequence of one-character strings, a non-ASCII code point being named   *)
(* "U+XXXX".  A JSON float is modelled by the integer number of its        *)
(* thousandths (0.42 is 420).                                              *)
(***************************************************************************)
EXTENDS Integers, Sequences, FiniteSets, TLC

VARIABLES
  environ,         \* os.environ restricted to the key API_URL
  API_URL,         \* module variable API_URL of the current run
  session_state,   \* st.session_state: the keys the script writes
  selectbox_value, \* widget state of the example picker
  widget_state,    \* widget states of the text areas, by widget identity
  text_area_id,    \* identity of the text area rendered by the current run
  trigger,         \* the button whose click started the current run
  run_reason,      \* what started the current run
  pc,              \* where the script stands
  tweet_text,      \* script variable tweet_text
  text_valid,      \* script variable text_valid
  predict_btn,     \* script variable predict_btn
  explain_btn,     \* script variable explain_btn
  clear_btn,       \* script variable clear_btn
  health,          \* outcome of requests.get(.../health) in this run
  response,        \* outcome of requests.post(.../predict) in this run
  resp,            \* outcome of requests.post(.../explain) in this run
  ui,              \* the elements rendered by the current run, in order
  http,            \* the HTTP requests issued by the current run, in order
  uncaught         \* an exception left the script in the current run

vars == <<environ, API_URL, session_state, selectbox_value, widget_state,
          text_area_id, trigger, run_reason, pc, tweet_text, text_valid,
          predict_btn, explain_btn, clear_btn, health, response, resp, ui,
          http, uncaught>>

-----------------------------------------------------------------------------
(* Bounds of the model *)

\* longest "explanation" list an /explain answer carries
MaxItems == 2

-----------------------------------------------------------------------------
(* Strings *)

EmptyStr == <<>>

\* the four sample sentences (39, 40, 35 and 40 code points)
Example1 ==
  <<"J", "'", "a", "d", "o", "r", "e", " ", "c", "e", " ", "p", "r", "o",
    "d", "u", "i", "t", ",", " ", "i", "l", " ", "e", "s", "t", " ", "i",
    "n", "c", "r", "o", "y", "a", "b", "l", "e", " ", "!">>

Example2 ==
  <<"C", "e", " ", "f", "i", "l", "m", " ", "e", "s", "t", " ", "u", "n",
    "e", " ", "p", "e", "r", "t", "e", " ", "d", "e", " ", "t", "e", "m",
    "p", "s", " ", "t", "o", "t", "a", "l", "e", ".", ".", ".">>

Example3 ==
  <<"S", "e", "r", "v", "i", "c", "e", " ", "c", "l", "i", "e", "n", "t",
    " ", "t", "r", "U+00E8", "s", " ", "p", "r", "o", "f", "e", "s", "s",
    "i", "o", "n", "n", "e", "l", " ", "U+1F44D">>

Example4 ==
  <<"J", "e", " ", "n", "e", " ", "r", "e", "c", "o", "m", "m", "a", "n",
    "d", "e", "r", "a", "i", " ", "j", "a", "m", "a", "i", "s", " ", "c",
    "e", "t", " ", "e", "n", "d", "r", "o", "i", "t", " ", "U+1F621">>

examples == <<Example1, Example2, Example3, Example4>>

\* [""] + examples
selectbox_options == <<EmptyStr>> \o examples

DefaultApiUrl ==
  <<"h", "t", "t", "p", ":", "/", "/", "1", "2", "7", ".", "0", ".", "0",
    ".", "1", ":", "8", "0", "0", "0">>

LocalhostUrl ==
  <<"h", "t", "t", "p", ":", "/", "/", "l", "o", "c", "a", "l", "h", "o",
    "s", "t", ":", "8", "0", "0", "0">>

RemoteUrl ==
  <<"h", "t", "t", "p", "s", ":", "/", "/", "a", "p", "i", ".", "e", "x",
    "a", "m", "p", "l", "e", ".", "c", "o", "m">>

\* max_chars of the text area
max_chars == 280

\* n code points typed by the user
Fill(n) == [i \in 1..n |-> "x"]

\* Python: sub in s
IsSubstring(sub, s) ==
  \E i \in 0..(Len(s) - Len(sub)) : SubSeq(s, i + 1, i + Len(sub)) = sub

\* Python: s.startswith(p)
StartsWith(s, p) == Len(s) >= Len(p) /\ SubSeq(s, 1, Len(p)) = p

UpperToLower ==
  [c \in {"A", "B", "C", "D", "E", "F", "G", "H", "I", "J", "K", "L", "M",
          "N", "O", "P", "Q", "R", "S", "T", "U", "V", "W", "X", "Y", "Z"} |->
     CASE c = "A" -> "a" [] c = "B" -> "b" [] c = "C" -> "c" [] c = "D" -> "d"
       [] c = "E" -> "e" [] c = "F" -> "f" [] c = "G" -> "g" [] c = "H" -> "h"
       [] c = "I" -> "i" [] c = "J" -> "j" [] c = "K" -> "k" [] c = "L" -> "l"
       [] c = "M" -> "m" [] c = "N" -> "n" [] c = "O" -> "o" [] c = "P" -> "p"
       [] c = "Q" -> "q" [] c = "R" -> "r" [] c = "S" -> "s" [] c = "T" -> "t"
       [] c = "U" -> "u" [] c = "V" -> "v" [] c = "W" -> "w" [] c = "X" -> "x"
       [] c = "Y" -> "y" [] c = "Z" -> "z"]

\* Python: s.lower(), on the letters the model's strings use
Lower(s) ==
  [i \in 1..Len(s) |->
     IF s[i] \in DOMAIN UpperToLower THEN UpperToLower[s[i]] ELSE s[i]]

-----------------------------------------------------------------------------
(* JSON values and HTTP outcomes *)

JStr(s) == [t |-> "str", v |-> s]
JNum(n) == [t |-> "num", v |-> n]
JNull == [t |-> "null", v |-> 0]
JList(l) == [t |-> "list", v |-> l]
JDict(d) == [t |-> "dict", v |-> d]
\* a body response.json() cannot decode
NotJson == [t |-> "invalid", v |-> 0]
\* a key the object does not carry
Missing == [t |-> "missing", v |-> 0]

EmptyDict == [k \in {} |-> Missing]

\* the object with key k bound to val, or without k when val is Missing
Field(k, val) == IF val.t = "missing" THEN EmptyDict ELSE (k :> val)

\* no outcome yet: the call was not made in this run
NoCall == [kind |-> "none", status |-> 0, body |-> NotJson]
\* the call raised (connection refused, DNS, timeout)
Raised == [kind |-> "exception", status |-> 0, body |-> NotJson]
Answer(status, body) == [kind |-> "response", status |-> status, body |-> body]

\* requests.get(url): no body
Get(base, path) == [method |-> "GET", base |-> base, path |-> path, json |-> JNull]
\* requests.post(url, json={"text": text})
Post(base, path, text) ==
  [method |-> "POST", base |-> base, path |-> path,
   json |-> JDict("text" :> JStr(text))]

\* what GET /health may do
HealthOutcomes == {Raised} \cup {Answer(s, NotJson) : s \in {200, 204, 500}}

SentimentStrings ==
  {<<"p", "o", "s", "i", "t", "i", "v", "e">>,
   <<"P", "o", "s", "i", "t", "i", "v", "e">>,
   <<"P", "O", "S", "I", "T", "I", "V", "E">>,
   <<"n", "e", "g", "a", "t", "i", "v", "e">>,
   <<"N", "e", "g", "a", "t", "i", "v", "e">>,
   <<"n", "e", "u", "t", "r", "a", "l">>,
   <<"p", "o">>,
   EmptyStr}

\* {"sentiment": s, "confidence": c, "probability_positive": pp,
\*  "probability_negative": pn}, a key left out when its value is Missing
PredictionResult(s, c, pp, pn) ==
  JDict(Field("sentiment", s) @@ Field("confidence", c)
        @@ Field("probability_positive", pp)
        @@ Field("probability_negative", pn))

\* bodies of a 200 answer of /predict: the complete object with each
\* sentiment string; the object with one key absent, with a sentiment or a
\* confidence of the wrong type; and two bodies that are no JSON object
PredictBodies ==
  {NotJson, JList(<<>>)} \cup
  {PredictionResult(JStr(x), JNum(870), JNum(870), JNum(130)) :
     x \in SentimentStrings} \cup
  {PredictionResult(s, JNum(870), JNum(870), JNum(130)) :
     s \in {JNum(1), Missing}} \cup
  {PredictionResult(JStr(<<"p", "o", "s", "i", "t", "i", "v", "e">>), c, JNum(870), JNum(130)) :
     c \in {JStr(<<"h", "i", "g", "h">>), Missing}} \cup
  {PredictionResult(JStr(<<"n", "e", "g", "a", "t", "i", "v", "e">>), JNum(870), pp, pn) :
     pp \in {JNum(130), Missing}, pn \in {JNum(870), Missing}}

\* what POST /predict may do
PredictOutcomes ==
  {Raised, Answer(500, NotJson)} \cup {Answer(200, b) : b \in PredictBodies}

HtmlFragment == <<"<", "p", ">", "l", "i", "m", "e", "<", "/", "p", ">">>

\* the shapes of one element of "explanation"
ExplanationItems ==
  {JDict(Field("word", JStr(<<"l", "o", "v", "e">>)) @@ Field("weight", JNum(420))),
   JDict(Field("word", JStr(<<"b", "a", "d">>)) @@ Field("weight", JNum(-310))),
   JDict(Field("word", JStr(<<"t", "h", "e">>)) @@ Field("weight", JNum(0))),
   JDict(Field("word", JStr(<<"f", "i", "l", "m">>))),
   JDict(Field("weight", JNum(420)))}

ExplanationLists == UNION {[1..n -> ExplanationItems] : n \in 0..MaxItems}

\* {"html_explanation": h, "explanation": e}, a key left out when its value
\* is Missing
ExplanationResult(h, e) ==
  JDict(Field("html_explanation", h) @@ Field("explanation", e))

\* bodies of a 200 answer of /explain: the object with every list, with
\* "explanation" null or absent, with "html_explanation" absent; and two
\* bodies that are no JSON object
ExplainBodies ==
  {NotJson, JList(<<>>)} \cup
  {ExplanationResult(JStr(HtmlFragment), e) :
     e \in {JList(l) : l \in ExplanationLists} \cup {JNull, Missing}} \cup
  {ExplanationResult(Missing, e) :
     e \in {JList(l) : l \in [1..1 -> ExplanationItems]} \cup {Missing}}

\* what POST /explain may do
ExplainOutcomes ==
  {Raised, Answer(500, NotJson)} \cup {Answer(200, b) : b \in ExplainBodies}

\* what the user may leave in the text area: at most max_chars code points
TypedTexts ==
  {t \in {Fill(n) : n \in {0, 1, 239, 240, 280, 281}} \cup {Example1} :
     Len(t) <= max_chars}

\* os.environ: API_URL unset, or set to a local or a remote address
Environments ==
  {EmptyDict, "API_URL" :> LocalhostUrl, "API_URL" :> RemoteUrl}

-----------------------------------------------------------------------------
(* Rendered elements: <<kind, ...>> *)

SidebarApi(url) == <<"sidebar.markdown", url>>
LocalWarning == <<"warning", "L'application est configuree pour le mode local.">>
Selectbox(v) == <<"selectbox", v>>
HealthConnected == <<"success", "API connectee avec succes">>
HealthUnreachable == <<"error", "API injoignable">>
HealthConnectionError ==
  <<"error", "Impossible de se connecter a l'API. Verifiez qu'elle est lancee.">>
TextArea(v) == <<"text_area", v>>
Counter(color, n) == <<"counter", color, n>>
Button(name, disabled) == <<"button", name, disabled>>
Spinner(msg) == <<"spinner", msg>>
PositiveBadge(confidence) == <<"success", "POSITIF", confidence>>
NegativeBadge(confidence) == <<"error", "NEGATIF", confidence>>
PlotlyChart(neg, pos) == <<"plotly_chart", neg, pos>>
PredictError == <<"error", "Erreur lors de la requete a l'API.">>
ExplainError ==
  <<"error", "Erreur lors de la generation de l'explication LIME.">>
\* st.error(f"Erreur : {e}")
ExceptionError(e) == <<"error", "Erreur : ", e>>
Subheader == <<"subheader", "Explication LIME">>
HtmlPanel(h) == <<"html", h>>
Expander == <<"expander", "Details des poids des mots">>
WeightItem(color, word, weight) == <<"item", color, word, weight>>
Footer == <<"caption", "footer">>
\* the traceback Streamlit shows when an exception leaves the script
Traceback(e) == <<"exception", e>>

\* the outcome of a stretch of code: what it rendered, and the exception
\* that ended it ("none" when it ran to its end)
Done(elems) == [ui |-> elems, raised |-> "none"]
Raise(elems, e) == [ui |-> elems, raised |-> e]

-----------------------------------------------------------------------------
(* The script, top to the health probe (lines 18-78) *)

\* os.getenv(key, default)
getenv(env, key, default) == IF key \in DOMAIN env THEN env[key] ELSE default

localhost == <<"l", "o", "c", "a", "l", "h", "o", "s", "t">>

\* if "localhost" in API_URL: st.warning(...)
LocalModeWarning(url) ==
  IF IsSubstring(localhost, url) THEN <<LocalWarning>> ELSE <<>>

\* if example: st.session_state["tweet_text"] = example
ExamplePicker(ss, example) ==
  IF example # EmptyStr THEN ("tweet_text" :> example) @@ ss ELSE ss

\* what the script has rendered when it reaches requests.get
TopUi(url, example) ==
  <<SidebarApi(url)>> \o LocalModeWarning(url) \o <<Selectbox(example)>>

\* A run starts: the script runs from its first line to requests.get.
\* ss is st.session_state, example the picker's value, trig the clicked
\* button, reason what started the run.
StartRun(ss, example, trig, reason) ==
  LET url == getenv(environ, "API_URL", DefaultApiUrl) IN
  /\ API_URL' = url
  /\ session_state' = ExamplePicker(ss, example)
  /\ selectbox_value' = example
  /\ trigger' = trig
  /\ run_reason' = reason
  /\ ui' = TopUi(url, example)
  /\ http' = <<Get(url, "/health")>>
  /\ pc' = "health"
  /\ tweet_text' = EmptyStr
  /\ text_valid' = FALSE
  /\ predict_btn' = FALSE
  /\ explain_btn' = FALSE
  /\ clear_btn' = FALSE
  /\ health' = NoCall
  /\ response' = NoCall
  /\ resp' = NoCall
  /\ uncaught' = FALSE
  /\ UNCHANGED environ

\* the session opens: the first run, at requests.get
Init ==
  /\ environ \in Environments
  /\ API_URL = getenv(environ, "API_URL", DefaultApiUrl)
  /\ session_state = EmptyDict
  /\ selectbox_value = selectbox_options[1]
  /\ widget_state = EmptyDict
  /\ text_area_id = EmptyStr
  /\ trigger = "none"
  /\ run_reason = "session_start"
  /\ ui = TopUi(API_URL, selectbox_value)
  /\ http = <<Get(API_URL, "/health")>>
  /\ pc = "health"
  /\ tweet_text = EmptyStr
  /\ text_valid = FALSE
  /\ predict_btn = FALSE
  /\ explain_btn = FALSE
  /\ clear_btn = FALSE
  /\ health = NoCall
  /\ response = NoCall
  /\ resp = NoCall
  /\ uncaught = FALSE

-----------------------------------------------------------------------------
(* Widget events: the browser sends the widget states and the script reruns *)

\* the run is over and its page is on screen
Idle == pc = "idle"

TextAreaShown == \E i \in DOMAIN ui : ui[i][1] = "text_area"

\* the button is on the page and not disabled
ButtonEnabled(name) == \E i \in DOMAIN ui : ui[i] = Button(name, FALSE)

\* the user edits the text area and leaves it
TypeText(s) ==
  /\ Idle
  /\ TextAreaShown
  /\ s # widget_state[text_area_id]
  /\ widget_state' = [widget_state EXCEPT ![text_area_id] = s]
  /\ UNCHANGED text_area_id
  /\ StartRun(session_state, selectbox_value, "none", "text_area")

\* the user picks an entry of the example picker
SelectExample(i) ==
  /\ Idle
  /\ selectbox_options[i] # selectbox_value
  /\ UNCHANGED <<widget_state, text_area_id>>
  /\ StartRun(session_state, selectbox_options[i], "none", "selectbox")

\* the user clicks a button
PressButton(b) ==
  /\ Idle
  /\ ButtonEnabled(b)
  /\ UNCHANGED <<widget_state, text_area_id>>
  /\ StartRun(session_state, selectbox_value, b, "button")

\* the user edits the text area and clicks a button in one gesture: the
\* edit is sent when the text area loses focus, the click reaches the
\* button as the page still shows it, and the run sees both
TypeAndPress(s, b) ==
  /\ Idle
  /\ TextAreaShown
  /\ ButtonEnabled(b)
  /\ s # widget_state[text_area_id]
  /\ widget_state' = [widget_state EXCEPT ![text_area_id] = s]
  /\ UNCHANGED text_area_id
  /\ StartRun(session_state, selectbox_value, b, "button")

-----------------------------------------------------------------------------
(* The health probe, the input box and the buttons (lines 77-135) *)

\* a handler that takes the transport exceptions alone
CatchesTransportOnly(e) == e = "ConnectionError"

\* except Exception: the handler takes every exception the script raises
Catches(e) == TRUE

\* a probe that takes every 2xx status for a healthy API
HealthBodyAnySuccess(h) ==
  IF h.kind = "exception" THEN Raise(<<>>, "ConnectionError")
  ELSE IF h.status >= 200 /\ h.status < 300 THEN Done(<<HealthConnected>>)
  ELSE Done(<<HealthUnreachable>>)

\* the try body: requests.get raised, or answered with a status
HealthBody(h) ==
  IF h.kind = "exception" THEN Raise(<<>>, "ConnectionError")
  ELSE IF h.status = 200 THEN Done(<<HealthConnected>>)
  ELSE Done(<<HealthUnreachable>>)

\* try: ... except Exception: st.error(...)
HealthProbe(h) ==
  LET r == HealthBody(h) IN
  IF r.raised # "none" /\ Catches(r.raised)
  THEN Done(r.ui \o <<HealthConnectionError>>)
  ELSE r

\* st.session_state.get("tweet_text", "")
TextAreaDefault(ss) ==
  IF "tweet_text" \in DOMAIN ss THEN ss["tweet_text"] ELSE EmptyStr

\* st.text_area(label, value=default, ...) without a key: the widget is
\* identified by its arguments, of which only value varies.  A widget of
\* that identity keeps the text the browser holds for it; a new identity
\* starts from value.
TextAreaValue(ws, default) ==
  IF default \in DOMAIN ws THEN ws[default] ELSE default

\* the widget states once the text area is registered
RegisterTextArea(ws, default) ==
  IF default \in DOMAIN ws THEN ws ELSE (default :> default) @@ ws

\* the colour of the character counter
CounterColor(char_count) ==
  IF char_count < 240 THEN "green"
  ELSE IF char_count <= 280 THEN "orange"
  ELSE "red"

\* a validation that refuses a text of exactly 280 code points
TextValidExclusive(char_count) == 0 < char_count /\ char_count < 280

\* text_valid = 0 < char_count <= 280
TextValid(char_count) == 0 < char_count /\ char_count <= 280

\* the three buttons: the two actions are disabled on an invalid text
ActionButtons(valid) ==
  <<Button("predict", ~valid), Button("explain", ~valid),
    Button("clear", FALSE)>>

\* a predict section guarded by the button alone
PredictGuardButtonOnly(btn, valid) == btn

\* if predict_btn and text_valid:
PredictGuard(btn, valid) == btn /\ valid

\* if explain_btn and text_valid:
ExplainGuard(btn, valid) == btn /\ valid

\* the spinner leaves the page when its with block is left
DropSpinner(u) == SelectSeq(u, LAMBDA e : e[1] # "spinner")

\* the footer is rendered and the run ends: Streamlit forgets the widgets
\* the run did not render
EndOfScript(page, ws, id) ==
  /\ ui' = page \o <<Footer>>
  /\ pc' = "idle"
  /\ widget_state' = [k \in (DOMAIN ws) \cap {id} |-> ws[k]]
  /\ uncaught' = FALSE
  /\ UNCHANGED http

\* an exception leaves the script: Streamlit shows it and the run stops
Crash(page, e) ==
  /\ ui' = page \o <<Traceback(e)>>
  /\ pc' = "idle"
  /\ uncaught' = TRUE
  /\ UNCHANGED <<http, widget_state>>

\* line 175 on: the explain section, then the footer
ExplainSection(page, ws, id, btn, valid, text) ==
  IF ExplainGuard(btn, valid)
  THEN /\ http' = Append(http, Post(API_URL, "/explain", text))
       /\ ui' = page \o <<Spinner("Generation de l'explication LIME...")>>
       /\ pc' = "explain"
       /\ widget_state' = ws
       /\ uncaught' = FALSE
  ELSE EndOfScript(page, ws, id)

\* line 140 on: the predict section, then the rest of the script
PredictSection(page, ws, id, pbtn, ebtn, valid, text) ==
  IF PredictGuard(pbtn, valid)
  THEN /\ http' = Append(http, Post(API_URL, "/predict", text))
       /\ ui' = page \o <<Spinner("Analyse du tweet en cours...")>>
       /\ pc' = "predict"
       /\ widget_state' = ws
       /\ uncaught' = FALSE
  ELSE ExplainSection(page, ws, id, ebtn, valid, text)

\* requests.get returns or raises; the script runs on to the next request,
\* to st.rerun() or to its end
HealthResponse(h) ==
  /\ pc = "health"
  /\ LET probe == HealthProbe(h)
         default == TextAreaDefault(session_state)
         value == TextAreaValue(widget_state, default)
         ws == RegisterTextArea(widget_state, default)
         char_count == Len(value)
         valid == TextValid(char_count)
         page == ui \o probe.ui
                 \o <<TextArea(value), Counter(CounterColor(char_count), char_count)>>
                 \o ActionButtons(valid)
     IN
     IF probe.raised # "none"
     THEN /\ Crash(ui \o probe.ui, probe.raised)
          /\ health' = h
          /\ UNCHANGED <<environ, API_URL, session_state, selectbox_value,
                         text_area_id, trigger, run_reason, tweet_text,
                         text_valid, predict_btn, explain_btn, clear_btn,
                         response, resp>>
     ELSE IF trigger = "clear"
     THEN \* st.session_state["tweet_text"] = ""; st.rerun()
          /\ widget_state' = ws
          /\ text_area_id' = default
          /\ StartRun(("tweet_text" :> EmptyStr) @@ session_state,
                      selectbox_value, "none", "st.rerun")
     ELSE /\ health' = h
          /\ text_area_id' = default
          /\ tweet_text' = value
          /\ text_valid' = valid
          /\ predict_btn' = (trigger = "predict")
          /\ explain_btn' = (trigger = "explain")
          /\ clear_btn' = FALSE
          /\ PredictSection(page, ws, default, trigger = "predict",
                            trigger = "explain", valid, value)
          /\ UNCHANGED <<environ, API_URL, session_state, selectbox_value,
                         trigger, run_reason, response, resp>>

-----------------------------------------------------------------------------
(* The predict section (lines 140-169) *)

pos == <<"p", "o", "s">>

\* a badge chosen without sentiment.lower()
SentimentBadgeCaseSensitive(sentiment, confidence) ==
  IF StartsWith(sentiment, pos)
  THEN PositiveBadge(confidence)
  ELSE NegativeBadge(confidence)

\* if sentiment.lower().startswith("pos"): st.success(...) else: st.error(...)
SentimentBadge(sentiment, confidence) ==
  IF StartsWith(Lower(sentiment), pos)
  THEN PositiveBadge(confidence)
  ELSE NegativeBadge(confidence)

\* data[key] for the four keys in the order the script reads them: the
\* first absent key, or "none"
FirstMissing(data, keys) ==
  IF \A i \in DOMAIN keys : keys[i] \in DOMAIN data THEN "none"
  ELSE keys[CHOOSE i \in DOMAIN keys :
              /\ keys[i] \notin DOMAIN data
              /\ \A j \in 1..(i - 1) : keys[j] \in DOMAIN data]

PredictKeys ==
  <<"sentiment", "confidence", "probability_positive", "probability_negative">>

\* the try body, lines 143-167
PredictBody(r) ==
  IF r.kind = "exception" THEN Raise(<<>>, "ConnectionError")
  ELSE IF r.status # 200 THEN Done(<<PredictError>>)
  ELSE IF r.body.t = "invalid" THEN Raise(<<>>, "JSONDecodeError")
  ELSE IF r.body.t # "dict" THEN Raise(<<>>, "TypeError")
  ELSE LET data == r.body.v
           missing == FirstMissing(data, PredictKeys)
       IN
       IF missing # "none" THEN Raise(<<>>, "KeyError")
       ELSE IF data["sentiment"].t # "str" THEN Raise(<<>>, "AttributeError")
       ELSE IF data["confidence"].t # "num" THEN Raise(<<>>, "ValueError")
       ELSE Done(<<SentimentBadge(data["sentiment"].v, data["confidence"].v),
                   PlotlyChart(data["probability_negative"].v,
                               data["probability_positive"].v)>>)

\* try: ... except Exception as e: st.error(f"Erreur : {e}")
PredictTry(r) ==
  LET b == PredictBody(r) IN
  IF b.raised # "none" /\ Catches(b.raised)
  THEN Done(b.ui \o <<ExceptionError(b.raised)>>)
  ELSE b

\* requests.post(.../predict) returns or raises
PredictResponse(r) ==
  /\ pc = "predict"
  /\ response' = r
  /\ LET out == PredictTry(r)
         page == DropSpinner(ui) \o out.ui
     IN
     IF out.raised # "none"
     THEN Crash(page, out.raised)
     ELSE ExplainSection(page, widget_state, text_area_id, explain_btn,
                         text_valid, tweet_text)
  /\ UNCHANGED <<environ, API_URL, session_state, selectbox_value,
                 text_area_id, trigger, run_reason, tweet_text, text_valid,
                 predict_btn, explain_btn, clear_btn, health, resp>>

-----------------------------------------------------------------------------
(* The explain section (lines 175-196) *)

\* a colour that takes a weight of 0 for positive
WeightColorNonNegative(weight) == IF weight >= 0 THEN "green" ELSE "red"

\* color = "green" if item["weight"] > 0 else "red"
WeightColor(weight) == IF weight > 0 THEN "green" ELSE "red"

\* one turn of the loop, lines 190-192
RenderItem(item) ==
  IF "weight" \notin DOMAIN item.v THEN Raise(<<>>, "KeyError")
  ELSE IF item.v["weight"].t # "num" THEN Raise(<<>>, "TypeError")
  ELSE IF "word" \notin DOMAIN item.v THEN Raise(<<>>, "KeyError")
  ELSE Done(<<WeightItem(WeightColor(item.v["weight"].v), item.v["word"].v,
                         item.v["weight"].v)>>)

\* for item in explanation_data["explanation"]: the loop stops at the first
\* item that raises, with the items before it on the page
RECURSIVE RenderItems(_)
RenderItems(items) ==
  IF items = <<>> THEN Done(<<>>)
  ELSE LET first == RenderItem(Head(items)) IN
       IF first.raised # "none" THEN first
       ELSE LET rest == RenderItems(Tail(items)) IN
            [ui |-> first.ui \o rest.ui, raised |-> rest.raised]

\* the try body, lines 178-194
ExplainBody(r) ==
  IF r.kind = "exception" THEN Raise(<<>>, "ConnectionError")
  ELSE IF r.status # 200 THEN Done(<<ExplainError>>)
  ELSE IF r.body.t = "invalid" THEN Raise(<<>>, "JSONDecodeError")
  ELSE IF r.body.t # "dict" THEN Raise(<<Subheader>>, "TypeError")
  ELSE LET explanation_data == r.body.v IN
       IF "html_explanation" \notin DOMAIN explanation_data
       THEN Raise(<<Subheader>>, "KeyError")
       ELSE LET panel == <<Subheader,
                           HtmlPanel(explanation_data["html_explanation"].v),
                           Expander>>
            IN
            IF "explanation" \notin DOMAIN explanation_data
            THEN Raise(panel, "KeyError")
            ELSE IF explanation_data["explanation"].t # "list"
            THEN Raise(panel, "TypeError")
            ELSE LET list == RenderItems(explanation_data["explanation"].v) IN
                 [ui |-> panel \o list.ui, raised |-> list.raised]

\* try: ... except Exception as e: st.error(f"Erreur : {e}")
ExplainTry(r) ==
  LET b == ExplainBody(r) IN
  IF b.raised # "none" /\ Catches(b.raised)
  THEN Done(b.ui \o <<ExceptionError(b.raised)>>)
  ELSE b

\* requests.post(.../explain) returns or raises
ExplainResponse(r) ==
  /\ pc = "explain"
  /\ resp' = r
  /\ LET out == ExplainTry(r)
         page == DropSpinner(ui) \o out.ui
     IN
     IF out.raised # "none"
     THEN Crash(page, out.raised)
     ELSE EndOfScript(page, widget_state, text_area_id)
  /\ UNCHANGED <<environ, API_URL, session_state, selectbox_value,
                 text_area_id, trigger, run_reason, tweet_text, text_valid,
                 predict_btn, explain_btn, clear_btn, health, response>>

-----------------------------------------------------------------------------

Next ==
  \/ \E s \in TypedTexts : TypeText(s)
  \/ \E i \in DOMAIN selectbox_options : SelectExample(i)
  \/ \E b \in {"predict", "explain", "clear"} : PressButton(b)
  \/ \E s \in TypedTexts, b \in {"predict", "explain", "clear"} : TypeAndPress(s, b)
  \/ \E h \in HealthOutcomes : HealthResponse(h)
  \/ \E r \in PredictOutcomes : PredictResponse(r)
  \/ \E r \in ExplainOutcomes : ExplainResponse(r)

Spec == Init /\ [][Next]_vars

-----------------------------------------------------------------------------
(* What the page shows *)

Shown(e) == \E i \in DOMAIN ui : ui[i] = e

\* the places of the elements of a kind
Places(kind) == {i \in DOMAIN ui : ui[i][1] = kind}

\* the text in the input box, as the browser holds it
BoxContent == widget_state[text_area_id]

\* an error message of the predict or the explain section (the negative
\* badge is rendered by st.error as well, and is no error message)
IsActionError(e) ==
  /\ e[1] = "error"
  /\ \/ e = PredictError
     \/ e = ExplainError
     \/ e[2] = "Erreur : "

ActionErrorShown == \E i \in DOMAIN ui : IsActionError(ui[i])

IsSentimentBadge(e) ==
  \/ e[1] = "success" /\ e[2] = "POSITIF"
  \/ e[1] = "error" /\ e[2] = "NEGATIF"

\* a body that is a PredictionResult: the four keys, a string sentiment,
\* numbers for the rest
WellFormedPrediction(body) ==
  /\ body.t = "dict"
  /\ \A k \in {"sentiment", "confidence", "probability_positive",
               "probability_negative"} : k \in DOMAIN body.v
  /\ body.v["sentiment"].t = "str"
  /\ \A k \in {"confidence", "probability_positive", "probability_negative"} :
       body.v[k].t = "num"

\* a body that is an ExplanationResult: a string html_explanation and a list
\* of {word, weight} with numeric weights
WellFormedExplanation(body) ==
  /\ body.t = "dict"
  /\ "html_explanation" \in DOMAIN body.v
  /\ body.v["html_explanation"].t = "str"
  /\ "explanation" \in DOMAIN body.v
  /\ body.v["explanation"].t = "list"
  /\ \A i \in DOMAIN body.v["explanation"].v :
       LET item == body.v["explanation"].v[i] IN
       /\ item.t = "dict"
       /\ "word" \in DOMAIN item.v
       /\ "weight" \in DOMAIN item.v
       /\ item.v["weight"].t = "num"

\* the call was made and failed: it raised, answered another status than
\* 200, or answered 200 with a body that is not the expected object
PredictFailed ==
  /\ response.kind # "none"
  /\ \/ response.kind = "exception"
     \/ response.status # 200
     \/ ~WellFormedPrediction(response.body)

ExplainFailed ==
  /\ resp.kind # "none"
  /\ \/ resp.kind = "exception"
     \/ resp.status # 200
     \/ ~WellFormedExplanation(resp.body)

-----------------------------------------------------------------------------
(* C1 *)

\* C1: a run issues POST /predict or POST /explain only if its button was
\* clicked in that run and the text in the input box has a length L with
\* 0 < L <= 280; the body of the request is {"text": <the text in the box>}.
C1_PostOnlyValidPressed ==
  \A i \in DOMAIN http :
    http[i].method = "POST" =>
      /\ http[i].path \in {"/predict", "/explain"}
      /\ http[i].path = "/predict" => trigger = "predict"
      /\ http[i].path = "/explain" => trigger = "explain"
      /\ text_area_id \in DOMAIN widget_state
      /\ Shown(TextArea(BoxContent))
      /\ 0 < Len(BoxContent)
      /\ Len(BoxContent) <= 280
      /\ http[i].json = JDict("text" :> JStr(BoxContent))

\* a run has sent POST /predict with a text of 280 code points
C1_Witness ==
  /\ pc = "predict"
  /\ Len(http) = 2
  /\ http[2].method = "POST"
  /\ http[2].path = "/predict"
  /\ Len(BoxContent) = 280

-----------------------------------------------------------------------------
(* C2 *)

\* C2: in the render that follows a click on Clear the input text is "" and
\* the Predict and Explain buttons are disabled, whatever was typed and
\* whatever example the picker holds.
C2_ClearEmptiesInput ==
  (run_reason = "st.rerun" /\ pc = "idle") =>
    /\ tweet_text = EmptyStr
    /\ BoxContent = EmptyStr
    /\ Shown(Button("predict", TRUE))
    /\ Shown(Button("explain", TRUE))

-----------------------------------------------------------------------------
(* C3 *)

\* C3: the run that follows a choice in the picker leaves the selected
\* example in the input box, whatever the box held; the choice of the empty
\* entry leaves the box as it was.
C3_SelectOverwritesInput ==
  [][(pc = "health" /\ run_reason = "selectbox") =>
       BoxContent' = IF selectbox_value # EmptyStr
                     THEN selectbox_value
                     ELSE BoxContent]_vars

-----------------------------------------------------------------------------
(* C4 *)

\* C4: on every page that shows the input box with a text of length L, the
\* Predict and Explain buttons are both enabled if 0 < L <= 280 and both
\* disabled otherwise, and the Clear button is enabled.
C4_ButtonsEnabledIffValid ==
  \A i \in Places("text_area") :
    LET L == Len(ui[i][2])
        enabled == 0 < L /\ L <= 280
    IN
    /\ Shown(Button("predict", ~enabled))
    /\ Shown(Button("explain", ~enabled))
    /\ Shown(Button("clear", FALSE))
    /\ \A j \in Places("button") :
         ui[j] \in {Button("predict", ~enabled), Button("explain", ~enabled),
                    Button("clear", FALSE)}

\* a page with 280 code points in the box and the Predict button enabled
C4_Witness ==
  /\ pc = "idle"
  /\ \E i \in Places("text_area") : Len(ui[i][2]) = 280
  /\ Shown(Button("predict", FALSE))
  /\ Shown(Button("explain", FALSE))

-----------------------------------------------------------------------------
(* C5 *)

HealthFailed == health.kind = "exception" \/ (health.kind = "response" /\ health.status # 200)

\* C5: no exception leaves the script; a failed GET /health, POST /predict
\* or POST /explain (an exception, a status other than 200, a 200 answer
\* whose body is not the expected object) leaves an error message on the
\* page; while a POST is awaited the spinner is the last element, and a run
\* that is over has rendered the footer and shows no spinner.
C5_FailuresShowErrors ==
  /\ ~uncaught
  /\ HealthFailed => (Shown(HealthUnreachable) \/ Shown(HealthConnectionError))
  /\ (pc # "predict" /\ PredictFailed) => ActionErrorShown
  /\ (pc # "explain" /\ ExplainFailed) => ActionErrorShown
  /\ pc \in {"predict", "explain"} => ui[Len(ui)][1] = "spinner"
  /\ pc = "idle" => (ui[Len(ui)] = Footer /\ Places("spinner") = {})

\* a run is over whose POST /explain answered 200 without "explanation"
C5_Witness ==
  /\ pc = "idle"
  /\ resp.kind = "response"
  /\ resp.status = 200
  /\ resp.body.t = "dict"
  /\ "explanation" \notin DOMAIN resp.body.v
  /\ ActionErrorShown
  /\ ui[Len(ui)] = Footer

-----------------------------------------------------------------------------
(* C6 *)

\* the parts of a result on the page
PredictParts == {i \in DOMAIN ui : IsSentimentBadge(ui[i]) \/ ui[i][1] = "plotly_chart"}
ExplainParts == Places("html") \cup Places("item")

\* the complete result of the answer is on the page
PredictComplete ==
  /\ WellFormedPrediction(response.body)
  /\ Cardinality({i \in DOMAIN ui : IsSentimentBadge(ui[i])}) = 1
  /\ Cardinality(Places("plotly_chart")) = 1
ExplainComplete ==
  /\ WellFormedExplanation(resp.body)
  /\ Cardinality(Places("html")) = 1
  /\ Cardinality(Places("item")) = Len(resp.body.v["explanation"].v)

\* C6: a run that sent POST /predict or POST /explain ends with the complete
\* result and no error message, or with an error message and no part of a
\* result.
C6_AllOrNothing ==
  /\ (pc = "idle" /\ response.kind # "none") =>
       \/ PredictComplete /\ ~ActionErrorShown
       \/ ActionErrorShown /\ PredictParts = {}
  /\ (pc = "idle" /\ resp.kind # "none") =>
       \/ ExplainComplete /\ ~ActionErrorShown
       \/ ActionErrorShown /\ ExplainParts = {}

-----------------------------------------------------------------------------
(* C7 *)

\* the address names this machine: host localhost, 127.x.y.z or [::1]
IsLoopback(url) ==
  \/ IsSubstring(<<"/", "/", "l", "o", "c", "a", "l", "h", "o", "s", "t">>, url)
  \/ IsSubstring(<<"/", "/", "1", "2", "7", ".">>, url)
  \/ IsSubstring(<<"/", "/", "[", ":", ":", "1", "]">>, url)

\* C7: at startup the page shows the local-mode warning whenever API_URL is
\* a loopback address, the default http://127.0.0.1:8000 of an unset API_URL
\* included.
C7_LoopbackWarning ==
  (run_reason = "session_start" /\ IsLoopback(API_URL)) => Shown(LocalWarning)

-----------------------------------------------------------------------------
(* C8 *)

\* s starts with the three letters, each in either case
StartsAnyCase(s, lower, upper) ==
  /\ Len(s) >= 3
  /\ \A i \in 1..3 : s[i] \in {lower[i], upper[i]}

\* C8: once POST /predict has answered 200 with a PredictionResult, the page
\* shows exactly one sentiment badge: the positive one if the sentiment
\* starts with "pos" in any letter case, the negative one for every other
\* sentiment, those that start with "neg" in any case and those that are
\* neither.
C8_BadgeBySentimentPrefix ==
  (/\ pc # "predict"
   /\ response.kind = "response"
   /\ response.status = 200
   /\ WellFormedPrediction(response.body)) =>
    LET sentiment == response.body.v["sentiment"].v
        confidence == response.body.v["confidence"].v
        isPos == StartsAnyCase(sentiment, <<"p", "o", "s">>, <<"P", "O", "S">>)
        isNeg == StartsAnyCase(sentiment, <<"n", "e", "g">>, <<"N", "E", "G">>)
    IN
    /\ Cardinality({i \in DOMAIN ui : IsSentimentBadge(ui[i])}) = 1
    /\ isPos => Shown(PositiveBadge(confidence))
    /\ isNeg => Shown(NegativeBadge(confidence))
    /\ ~isPos => Shown(NegativeBadge(confidence))

\* the answer said "Positive" and the positive badge is on the page
C8_Witness ==
  /\ pc = "idle"
  /\ response.kind = "response"
  /\ response.status = 200
  /\ WellFormedPrediction(response.body)
  /\ response.body.v["sentiment"].v = <<"P", "o", "s", "i", "t", "i", "v", "e">>
  /\ Shown(PositiveBadge(response.body.v["confidence"].v))

-----------------------------------------------------------------------------
(* C9 *)

HealthBadgePlaces ==
  {i \in DOMAIN ui :
     ui[i] \in {HealthConnected, HealthUnreachable, HealthConnectionError}}

\* C9: every run sends GET /health as its first request, before any POST;
\* once it is answered the page shows exactly one health badge, above the
\* input box: connected iff the status is 200, unreachable iff it is any
\* other status, connection error iff the GET raised; the last two differ.
C9_HealthBadge ==
  /\ Len(http) >= 1
  /\ http[1] = Get(API_URL, "/health")
  /\ \A i \in DOMAIN http : i > 1 => http[i].method = "POST"
  /\ pc = "health" => (HealthBadgePlaces = {} /\ Places("text_area") = {})
  /\ pc # "health" =>
       /\ health.kind # "none"
       /\ Cardinality(HealthBadgePlaces) = 1
       /\ \A i \in HealthBadgePlaces : \A j \in Places("text_area") : i < j
       /\ Places("text_area") # {}
       /\ Shown(HealthConnected) <=> (health.kind = "response" /\ health.status = 200)
       /\ Shown(HealthUnreachable) <=> (health.kind = "response" /\ health.status # 200)
       /\ Shown(HealthConnectionError) <=> health.kind = "exception"
  /\ HealthUnreachable # HealthConnectionError

\* GET /health answered 204 and the page shows the unreachable badge
C9_Witness ==
  /\ pc = "idle"
  /\ health.kind = "response"
  /\ health.status = 204
  /\ Shown(HealthUnreachable)

-----------------------------------------------------------------------------
(* C10 *)

\* the items of the token-weight list, in page order
RECURSIVE ItemsOf(_)
ItemsOf(u) ==
  IF u = <<>> THEN <<>>
  ELSE IF Head(u)[1] = "item" THEN <<Head(u)>> \o ItemsOf(Tail(u))
  ELSE ItemsOf(Tail(u))

\* C10: once POST /explain has answered 200 with an ExplanationResult, the
\* token-weight list has one entry per item of "explanation", in the order
\* of the answer, each with its word and weight, green iff the weight is
\* > 0 and red iff it is < 0 or exactly 0.
C10_ItemsColoredBySign ==
  (/\ pc = "idle"
   /\ resp.kind = "response"
   /\ resp.status = 200
   /\ WellFormedExplanation(resp.body)) =>
    LET explanation == resp.body.v["explanation"].v
        list == ItemsOf(ui)
    IN
    /\ Len(list) = Len(explanation)
    /\ \A i \in DOMAIN explanation :
         LET word == explanation[i].v["word"].v
             weight == explanation[i].v["weight"].v
         IN
         /\ list[i][3] = word
         /\ list[i][4] = weight
         /\ (list[i][2] = "green") <=> (weight > 0)
         /\ (list[i][2] = "red") <=> (weight < 0 \/ weight = 0)

\* the answer listed love 0.42, bad -0.31: love is green and bad is red
C10_Witness ==
  /\ pc = "idle"
  /\ resp.kind = "response"
  /\ resp.status = 200
  /\ WellFormedExplanation(resp.body)
  /\ ItemsOf(ui) = <<WeightItem("green", <<"l", "o", "v", "e">>, 420),
                     WeightItem("red", <<"b", "a", "d">>, -310)>>
====
